---------------------------- MODULE Spec2Model ----------------------------
(*************************************************************************)
(* A model of bio_cal's CalendarSVGGenerator (calendar_with_events.py     *)
(* and calendar_generator.py): the four-week window, the CSV event load   *)
(* with de-duplication and member colours, the first-fit event layout,    *)
(* the dynamic cell height and the per-week event bands of generate_svg.  *)
(*                                                                        *)
(* A datetime.date is modelled by its proleptic Gregorian ordinal         *)
(* (date.toordinal()): date + timedelta(days=n) is ordinal + n, the       *)
(* comparison of dates is the comparison of ordinals, and date.weekday()  *)
(* is (ordinal + 6) % 7.  A date text of the CSV file is a record         *)
(* [sep, y, m, d] that strptime converts to an ordinal or rejects.        *)
(* A member name is the tuple of its code points, which is what sorted()  *)
(* compares.  An event dict is identified by its index in self.events;    *)
(* the occupancy lists hold these indices (0 stands for None).            *)
(*************************************************************************)
EXTENDS Integers, Sequences, FiniteSets, TLC

VARIABLES
    configured_cell_height, \* the cell_height argument given to __init__
    event_height,           \* self.event_height
    cell_height,            \* self.cell_height
    member_colors,          \* self.member_colors: member -> colour
    events,                 \* self.events: sequence of event records
    layout_position,        \* event['layout_position'] per index of events (-1: key absent)
    fs,                     \* the file system: path -> whether the file exists, and its
                            \* rows after the header
    csv_file,               \* the csv_file argument of the last call
    today,                  \* the anchor date of the last call
    weeks,                  \* the window of the last call
    date_event_positions,   \* the occupancy computed by the last call
    bands,                  \* the event rectangles emitted by the last call
    relevant,               \* calculate_event_layout: relevant_events (indices of events)
    next_event,             \* calculate_event_layout: position in relevant of the event to place
    pc                      \* "new", "layout" (a call is placing events), or how the
                            \* last call ended: "returned" or "raised" (ValueError)

vars == <<configured_cell_height, event_height, cell_height, member_colors, events,
          layout_position, fs, csv_file, today, weeks, date_event_positions, bands,
          relevant, next_event, pc>>

-----------------------------------------------------------------------------
(* Sequences and numbers *)

Max2(a, b) == IF a >= b THEN a ELSE b
Min2(a, b) == IF a <= b THEN a ELSE b

Range(s) == {s[i] : i \in 1..Len(s)}

RECURSIVE SeqsUpTo(_, _)
\* all sequences over S of length at most n
SeqsUpTo(S, n) ==
    IF n = 0 THEN {<<>>}
    ELSE LET shorter == SeqsUpTo(S, n - 1)
         IN  shorter \cup {Append(s, x) : s \in {t \in shorter : Len(t) = n - 1}, x \in S}

-----------------------------------------------------------------------------
(* datetime.date *)

\* None of the occupancy lists
None == 0

IsLeap(y) == y % 4 = 0 /\ (y % 100 # 0 \/ y % 400 = 0)

DaysInMonth(y, m) ==
    IF m = 2 THEN (IF IsLeap(y) THEN 29 ELSE 28)
    ELSE IF m \in {4, 6, 9, 11} THEN 30 ELSE 31

DaysBeforeYear(y) ==
    (y - 1) * 365 + ((y - 1) \div 4) - ((y - 1) \div 100) + ((y - 1) \div 400)

RECURSIVE DaysBeforeMonth(_, _)
DaysBeforeMonth(y, m) ==
    IF m = 1 THEN 0 ELSE DaysBeforeMonth(y, m - 1) + DaysInMonth(y, m - 1)

\* date(y, m, d).toordinal()
Ymd2Ord(y, m, d) == DaysBeforeYear(y) + DaysBeforeMonth(y, m) + d

\* date.weekday(): 0 is Monday
Weekday(date) == (date + 6) % 7

\* A date text of the file: the separator it is written with and its three numbers.
DateText(sep, y, m, d) == [sep |-> sep, y |-> y, m |-> m, d |-> d]

\* datetime.strptime(text, '%Y/%m/%d') raises ValueError unless this holds
StrptimeAccepts(text) ==
    /\ text.sep = "/"
    /\ text.y \in 1..9999
    /\ text.m \in 1..12
    /\ text.d \in 1..DaysInMonth(text.y, text.m)

\* datetime.strptime(text, '%Y/%m/%d').date() of an accepted text
Strptime(text) == Ymd2Ord(text.y, text.m, text.d)

-----------------------------------------------------------------------------
(* The four-week window *)

\* get_week_range with the week counted from Sunday (isoweekday() % 7 for weekday())
get_week_range_from_sunday(target_date) ==
    LET days_since_sunday == (Weekday(target_date) + 1) % 7
        sunday == target_date - days_since_sunday
    IN  [i \in 1..7 |-> sunday + (i - 1)]

\* get_week_range: Monday to Sunday of the week of target_date
get_week_range(target_date) ==
    LET days_since_monday == Weekday(target_date)
        monday == target_date - days_since_monday
    IN  [i \in 1..7 |-> monday + (i - 1)]

\* get_four_week_range: the week before, the week of today and the two weeks after
get_four_week_range(t) ==
    LET current_week == get_week_range(t)
        prev_week    == get_week_range(current_week[1] - 7)
        next_week1   == get_week_range(current_week[1] + 7)
        next_week2   == get_week_range(current_week[1] + 14)
    IN  <<prev_week, current_week, next_week1, next_week2>>

\* all_dates of calculate_event_layout: the weeks concatenated
AllDates(w) == w[1] \o w[2] \o w[3] \o w[4]

-----------------------------------------------------------------------------
(* The event store: load_events_from_csv *)

\* the palette of assign_member_colors
colors == <<"#ffb3ba", "#bae1ff", "#baffc9", "#ffffba", "#ffdfba",
            "#e0bbe4", "#d4d4aa", "#ffc9c9", "#c9e4ff", "#d4ffd4",
            "#ffffe0", "#ffe4e1", "#f0f8ff", "#f0fff0", "#ffefd5",
            "#e6e6fa", "#f5deb3", "#ffe4b5", "#dda0dd", "#98fb98">>

\* the event dict built from a row of the file
Event(start_date, end_date, member, description) ==
    [start_date |-> start_date, end_date |-> end_date,
     member |-> member, description |-> description]

\* the key of remove_duplicate_events and the event_id of generate_svg
Key(event) == <<event.member, event.start_date, event.end_date>>

RECURSIVE ReadRows(_, _, _, _)
\* the loop over the reader: rows of fewer than four fields are passed over, a row
\* whose date text strptime rejects ends the loop with ValueError
ReadRows(rows, i, raw_events, members) ==
    IF i > Len(rows) THEN
        [status |-> "ok", raw_events |-> raw_events, members |-> members]
    ELSE IF Len(rows[i]) >= 4 THEN
        IF StrptimeAccepts(rows[i][1]) /\ StrptimeAccepts(rows[i][2]) THEN
            ReadRows(rows, i + 1,
                     Append(raw_events, Event(Strptime(rows[i][1]), Strptime(rows[i][2]),
                                              rows[i][3], rows[i][4])),
                     members \cup {rows[i][3]})
        ELSE [status |-> "ValueError", raw_events |-> raw_events, members |-> members]
    ELSE ReadRows(rows, i + 1, raw_events, members)

\* event_dict.setdefault(key, event): a known key keeps its first value
DictSetDefault(event_dict, event) ==
    IF \E j \in 1..Len(event_dict) : Key(event_dict[j]) = Key(event)
    THEN event_dict
    ELSE Append(event_dict, event)

\* event_dict[key] = event: a new key is appended, a known key keeps its place and
\* takes the new value
DictSet(event_dict, event) ==
    IF \E j \in 1..Len(event_dict) : Key(event_dict[j]) = Key(event)
    THEN [j \in 1..Len(event_dict) |->
             IF Key(event_dict[j]) = Key(event) THEN event ELSE event_dict[j]]
    ELSE Append(event_dict, event)

RECURSIVE DedupFrom(_, _, _)
DedupFrom(evs, i, event_dict) ==
    IF i > Len(evs) THEN event_dict
    ELSE DedupFrom(evs, i + 1, DictSet(event_dict, evs[i]))

\* remove_duplicate_events: list(event_dict.values())
remove_duplicate_events(evs) == DedupFrom(evs, 1, <<>>)

RECURSIVE StrLess(_, _)
\* a < b for two strings given as tuples of code points
StrLess(a, b) ==
    IF Len(a) = 0 THEN Len(b) > 0
    ELSE IF Len(b) = 0 THEN FALSE
    ELSE IF a[1] # b[1] THEN a[1] < b[1]
    ELSE StrLess(Tail(a), Tail(b))

RECURSIVE SortedDescending(_)
\* sorted(list(members), reverse=True)
SortedDescending(members) ==
    IF members = {} THEN <<>>
    ELSE LET greatest == CHOOSE m \in members : \A o \in members \ {m} : StrLess(o, m)
         IN  <<greatest>> \o SortedDescending(members \ {greatest})

RECURSIVE Sorted(_)
\* sorted(list(members))
Sorted(members) ==
    IF members = {} THEN <<>>
    ELSE LET least == CHOOSE m \in members : \A o \in members \ {m} : StrLess(m, o)
         IN  <<least>> \o Sorted(members \ {least})

\* colors[i % len(colors)] for the i of enumerate (from 0)
PaletteColor(i) == colors[(i % Len(colors)) + 1]

\* assign_member_colors: self.member_colors[member] = colors[i % len(colors)]
assign_member_colors(old_colors, members) ==
    [m \in (DOMAIN old_colors) \cup Range(members) |->
        IF m \in Range(members)
        THEN PaletteColor((CHOOSE i \in 1..Len(members) : members[i] = m) - 1)
        ELSE old_colors[m]]

\* load_events_from_csv on a file (open() raises FileNotFoundError when it does not
\* exist): what the call ends with and the generator's fields after it
load_events_from_csv(file, old_events, old_positions, old_colors) ==
    IF ~file.exists THEN
        [status |-> "missing", events |-> old_events,
         layout_position |-> old_positions, member_colors |-> old_colors]
    ELSE
        LET read == ReadRows(file.rows, 1, <<>>, {}) IN
        IF read.status = "ValueError" THEN
            [status |-> "ValueError", events |-> old_events,
             layout_position |-> old_positions, member_colors |-> old_colors]
        ELSE
            LET loaded == remove_duplicate_events(read.raw_events) IN
            [status |-> "ok", events |-> loaded,
             layout_position |-> [i \in 1..Len(loaded) |-> -1],
             member_colors |-> assign_member_colors(old_colors, Sorted(read.members))]

-----------------------------------------------------------------------------
(* The layout: calculate_event_layout *)

\* get_events_for_date_range that keeps only the events that start in the range
events_starting_in_date_range(evs, start_date, end_date) ==
    SelectSeq([i \in 1..Len(evs) |-> i],
              LAMBDA i : start_date <= evs[i].start_date /\ evs[i].start_date <= end_date)

\* get_events_for_date_range: the events that meet [start_date, end_date], as the
\* indices of self.events in their order
get_events_for_date_range(evs, start_date, end_date) ==
    SelectSeq([i \in 1..Len(evs) |-> i],
              LAMBDA i : ~(evs[i].end_date < start_date \/ evs[i].start_date > end_date))

\* event_dates: the dates of the event inside [start_date, end_date]
EventDates(event, start_date, end_date) ==
    Max2(event.start_date, start_date) .. Min2(event.end_date, end_date)

\* can_place that looks at the first date of the event only
CanPlaceOnFirstDate(occupancy, event_dates, position) ==
    \A date \in event_dates :
        (\A other \in event_dates : date <= other) =>
            ~(position < Len(occupancy[date]) /\ occupancy[date][position + 1] # None)

\* can_place at a position: no date of the event has a slot there that holds an event
CanPlace(occupancy, event_dates, position) ==
    \A date \in event_dates :
        ~(position < Len(occupancy[date]) /\ occupancy[date][position + 1] # None)

\* the row search that never goes back to a free slot under an occupied one: the
\* position after the longest occupancy list of the dates of the event
FirstFreeAboveAll(occupancy, event_dates, position) ==
    IF event_dates = {} THEN position
    ELSE LET longest == CHOOSE n \in {Len(occupancy[date]) : date \in event_dates} :
                            \A date \in event_dates : Len(occupancy[date]) <= n
         IN  Max2(position, longest)

RECURSIVE FirstFreeFromNext(_, _, _)
\* the row search that starts one position too high
FirstFreeFromNext(occupancy, event_dates, position) ==
    IF CanPlace(occupancy, event_dates, position + 1) THEN position + 1
    ELSE FirstFreeFromNext(occupancy, event_dates, position + 1)

RECURSIVE FirstFree(_, _, _)
\* the while True loop: the first position from `position` on that can_place accepts
FirstFree(occupancy, event_dates, position) ==
    IF CanPlace(occupancy, event_dates, position) THEN position
    ELSE FirstFree(occupancy, event_dates, position + 1)

\* one occupancy list after the commit: padded with None up to position, then the event
SetSlot(slots, position, e) ==
    [k \in 1..Max2(Len(slots), position + 1) |->
        IF k = position + 1 THEN e
        ELSE IF k <= Len(slots) THEN slots[k] ELSE None]

\* the commit: the event takes the position on every one of its dates
Commit(occupancy, event_dates, position, e) ==
    [date \in DOMAIN occupancy |->
        IF date \in event_dates THEN SetSlot(occupancy[date], position, e)
        ELSE occupancy[date]]

\* one iteration of `for event in relevant_events`, for the event of index e
PlaceEvent(evs, e, occupancy, positions, start_date, end_date) ==
    LET event_dates == EventDates(evs[e], start_date, end_date)
        position    == FirstFree(occupancy, event_dates, 0)
    IN  [occupancy |-> Commit(occupancy, event_dates, position, e),
         positions |-> [positions EXCEPT ![e] = position]]

\* date_event_positions before the first event: an empty list for every date
EmptyOccupancy(w) == [date \in Range(AllDates(w)) |-> <<>>]

-----------------------------------------------------------------------------
(* generate_svg: the cell height and the event bands *)

RECURSIVE MaxLen(_, _)
\* max([len(positions) for positions in ...] + [0])
MaxLen(occupancy, dates) ==
    IF dates = {} THEN 0
    ELSE LET date == CHOOSE d \in dates : TRUE
         IN  Max2(Len(occupancy[date]), MaxLen(occupancy, dates \ {date}))

max_events(occupancy) == MaxLen(occupancy, DOMAIN occupancy)

\* self.cell_height after the adjustment of generate_svg
AdjustedCellHeight(old_height, row_height, occupancy) ==
    IF max_events(occupancy) > 0
    THEN Max2(120, 60 + max_events(occupancy) * (row_height + 2))
    ELSE old_height

\* the slots of a week in the order the drawing loop visits them: <<day_idx, pos>>
RECURSIVE WeekSlots(_, _, _)
WeekSlots(occupancy, week, day) ==
    IF day > 7 THEN <<>>
    ELSE [pos \in 1..Len(occupancy[week[day]]) |-> <<day - 1, pos - 1>>]
         \o WeekSlots(occupancy, week, day + 1)

\* the rectangle drawn for an event in a week
Band(week_idx, day_idx, pos, e, event_length) ==
    [week_idx |-> week_idx, day_idx |-> day_idx, pos |-> pos,
     event |-> e, length |-> event_length]

\* whether the drawing loop emits a rectangle at a slot
Draws(evs, week, date, e, drawn_events) ==
    /\ e # None
    /\ Key(evs[e]) \notin drawn_events
    /\ evs[e].start_date <= date /\ date <= evs[e].end_date
    /\ Max2(evs[e].start_date, week[1]) = date

\* event_length from the end of the event, not clipped to the week
EventLengthToEventEnd(event, week) ==
    LET event_start_in_week == Max2(event.start_date, week[1])
    IN  Weekday(event.end_date) - Weekday(event_start_in_week) + 1

\* event_length of the rectangle of event e in the week
EventLength(event, week) ==
    LET event_start_in_week == Max2(event.start_date, week[1])
        event_end_in_week   == Min2(event.end_date, week[7])
    IN  Weekday(event_end_in_week) - Weekday(event_start_in_week) + 1

RECURSIVE DrawWeek(_, _, _, _, _, _, _, _)
\* the loops over the days of a week and the slots of a day
DrawWeek(evs, occupancy, week, week_idx, slots, k, drawn_events, out) ==
    IF k > Len(slots) THEN out
    ELSE LET day_idx == slots[k][1]
             pos     == slots[k][2]
             date    == week[day_idx + 1]
             e       == occupancy[date][pos + 1]
         IN  IF Draws(evs, week, date, e, drawn_events)
             THEN DrawWeek(evs, occupancy, week, week_idx, slots, k + 1,
                           drawn_events \cup {Key(evs[e])},
                           Append(out, Band(week_idx, day_idx, pos, e,
                                            EventLength(evs[e], week)))) 
             ELSE DrawWeek(evs, occupancy, week, week_idx, slots, k + 1,
                           drawn_events, out)

RECURSIVE DrawBands(_, _, _, _)
\* the loop over the weeks: drawn_events starts empty in every week
DrawBands(evs, occupancy, w, week_idx) ==
    IF week_idx >= Len(w) THEN <<>>
    ELSE DrawWeek(evs, occupancy, w[week_idx + 1], week_idx,
                  WeekSlots(occupancy, w[week_idx + 1], 1), 1, {}, <<>>)
         \o DrawBands(evs, occupancy, w, week_idx + 1)

-----------------------------------------------------------------------------
(* The operations of a generator *)

NoColors == [m \in {} |-> ""]
NoOccupancy == [date \in {} |-> <<>>]

\* CalendarSVGGenerator(cell_height=h, event_height=eh), before any call
Constructed(h, eh) ==
    /\ configured_cell_height = h
    /\ event_height = eh
    /\ cell_height = h
    /\ member_colors = NoColors
    /\ events = <<>>
    /\ layout_position = <<>>
    /\ csv_file = ""
    /\ today = None
    /\ weeks = <<>>
    /\ date_event_positions = NoOccupancy
    /\ bands = <<>>
    /\ relevant = <<>>
    /\ next_event = 1
    /\ pc = "new"

Idle == pc \in {"new", "returned", "raised"}

\* generate_svg(today=t, csv_file=path) up to the first event of the layout: the load,
\* the window, relevant_events and the empty occupancy
GenerateSvgBegin(path, t) ==
    LET load == load_events_from_csv(fs[path], events, layout_position, member_colors)
        w    == get_four_week_range(t)
    IN  /\ Idle
        /\ load.status # "ValueError"
        /\ csv_file' = path
        /\ today' = t
        /\ events' = load.events
        /\ layout_position' = load.layout_position
        /\ member_colors' = load.member_colors
        /\ weeks' = w
        /\ relevant' = get_events_for_date_range(load.events, w[1][1], w[4][7])
        /\ next_event' = 1
        /\ date_event_positions' = EmptyOccupancy(w)
        /\ bands' = <<>>
        /\ pc' = "layout"
        /\ UNCHANGED <<configured_cell_height, event_height, cell_height, fs>>

\* generate_svg(today=t, csv_file=path) when the load raises ValueError: the
\* exception leaves generate_svg, nothing of the generator has been assigned
GenerateSvgRaises(path, t) ==
    LET load == load_events_from_csv(fs[path], events, layout_position, member_colors)
    IN  /\ Idle
        /\ load.status = "ValueError"
        /\ csv_file' = path
        /\ today' = t
        /\ weeks' = <<>>
        /\ relevant' = <<>>
        /\ next_event' = 1
        /\ date_event_positions' = NoOccupancy
        /\ bands' = <<>>
        /\ pc' = "raised"
        /\ UNCHANGED <<configured_cell_height, event_height, cell_height, fs,
                       events, layout_position, member_colors>>

\* calculate_event_layout: the next event of relevant_events is placed
PlaceNext ==
    /\ pc = "layout"
    /\ next_event <= Len(relevant)
    /\ LET placed == PlaceEvent(events, relevant[next_event], date_event_positions,
                                layout_position, weeks[1][1], weeks[4][7])
       IN  /\ date_event_positions' = placed.occupancy
           /\ layout_position' = placed.positions
    /\ next_event' = next_event + 1
    /\ UNCHANGED <<configured_cell_height, event_height, cell_height, member_colors,
                   events, fs, csv_file, today, weeks, bands, relevant, pc>>

\* generate_svg after the layout: the cell height, the rectangles, the return
GenerateSvgEnd ==
    /\ pc = "layout"
    /\ next_event > Len(relevant)
    /\ cell_height' = AdjustedCellHeight(cell_height, event_height, date_event_positions)
    /\ bands' = DrawBands(events, date_event_positions, weeks, 0)
    /\ pc' = "returned"
    /\ UNCHANGED <<configured_cell_height, event_height, member_colors, events,
                   layout_position, fs, csv_file, today, weeks, date_event_positions,
                   relevant, next_event>>

\* load_events_from_csv(path) called on its own
LoadEventsFromCsv(path) ==
    LET load == load_events_from_csv(fs[path], events, layout_position, member_colors)
    IN  /\ Idle
        /\ csv_file' = path
        /\ events' = load.events
        /\ layout_position' = load.layout_position
        /\ member_colors' = load.member_colors
        /\ pc' = IF load.status = "ValueError" THEN "raised" ELSE "returned"
        /\ UNCHANGED <<configured_cell_height, event_height, cell_height, fs, today,
                       weeks, date_event_positions, bands, relevant, next_event>>

\* get_four_week_range(t) called on its own
GetFourWeekRange(t) ==
    /\ Idle
    /\ today' = t
    /\ weeks' = get_four_week_range(t)
    /\ pc' = "returned"
    /\ UNCHANGED <<configured_cell_height, event_height, cell_height, member_colors,
                   events, layout_position, fs, csv_file, date_event_positions, bands,
                   relevant, next_event>>

-----------------------------------------------------------------------------
(* The inputs of the specifications *)

\* the defaults of __init__
DefaultCellHeight == 140
DefaultEventHeight == 18

\* the longest file of Spec and SpecLoad, in rows after the header
MaxRows == 3
\* the longest file of SpecPack, in rows after the header
MaxEvents == 4
\* the largest roster of SpecLoad, in members
MaxMembers == 22
\* the number of consecutive anchor dates of SpecWindow
WindowDays == 400

\* member names: "A", "Ab", "B"
MemberA  == <<65>>
MemberAb == <<65, 98>>
MemberB  == <<66>>

Slash(y, m, d) == DateText("/", y, m, d)

\* the rows of the files of Spec and SpecLoad
RowUniverse ==
    { <<Slash(2024, 3, 10), Slash(2024, 3, 12), MemberB, "x">>,      \* Sunday to Tuesday
      <<Slash(2024, 3, 10), Slash(2024, 3, 12), MemberB, "y">>,      \* the same key again
      <<Slash(2024, 3, 11), Slash(2024, 3, 13), MemberA, "">>,
      <<Slash(2024, 3, 11), Slash(2024, 3, 13), MemberAb, "z">>,
      <<DateText("-", 2024, 3, 11), Slash(2024, 3, 13), MemberA, "x">>, \* 2024-03-11
      <<Slash(2024, 3, 11), Slash(2024, 2, 30), MemberAb, "x">>,     \* no such day
      <<Slash(2024, 3, 14), Slash(2024, 3, 12), MemberA, "r">>,      \* start after end
      <<Slash(2024, 3, 20), Slash(2024, 3, 21), MemberB>> }          \* three fields

\* the anchor dates of Spec: Fridays whose windows start on 2024-03-04 (the dates of
\* the rows are in it) and on 2024-03-25 (they are before it)
Anchors == {Ymd2Ord(2024, 3, 15), Ymd2Ord(2024, 4, 5)}

Paths == {"vacation.csv", "missing.csv"}

\* the file systems: vacation.csv holds the rows, missing.csv does not exist
FileSystem(rows) ==
    [path \in Paths |-> IF path = "vacation.csv" THEN [exists |-> TRUE, rows |-> rows]
                                                 ELSE [exists |-> FALSE, rows |-> <<>>]]

\* the constructor arguments of Spec: <<cell_height, event_height>>
Configs == {<<DefaultCellHeight, DefaultEventHeight>>, <<100, 48>>}

\* the rows of the files of SpecPack.  2024-03-10 is a Sunday, 2024-03-11 and
\* 2024-03-12 the Monday and the Tuesday after it, 2024-04-08 a Monday four weeks on.
PackRows ==
    { <<Slash(2024, 3, 10), Slash(2024, 3, 10), MemberA, "">>,
      <<Slash(2024, 3, 12), Slash(2024, 3, 12), MemberA, "">>,
      <<Slash(2024, 3, 10), Slash(2024, 3, 11), MemberA, "">>,
      <<Slash(2024, 3, 11), Slash(2024, 3, 12), MemberA, "">>,
      <<Slash(2024, 3, 10), Slash(2024, 4, 8), MemberA, "">>,
      <<Slash(2024, 3, 10), Slash(2024, 3, 11), MemberB, "">>,   \* a range of MemberA
      <<Slash(2024, 3, 12), Slash(2024, 3, 11), MemberB, "">> }  \* start after end

\* the anchor dates of SpecPack: the windows start on 2024-03-04 (2024-03-10 is the
\* Sunday of the first week, 2024-04-08 is after the window) and on 2024-03-11
\* (2024-03-10 is the day before the window, 2024-04-08 the day after it)
PackAnchors == {Ymd2Ord(2024, 3, 15), Ymd2Ord(2024, 3, 22)}

\* the rosters of SpecLoad: n members "A", "B", ... with one single-day event each,
\* written to the file from the r-th member on and around
RosterMember(k) == <<64 + k>>
RosterRow(k) == <<Slash(2024, 3, 15), Slash(2024, 3, 15), RosterMember(k), "">>
RosterFile(n, r) == [i \in 1..n |-> RosterRow(((i + r - 2) % n) + 1)]
RosterFiles == UNION {{RosterFile(n, r) : r \in {1, 2, n}} : n \in 1..MaxMembers}

\* the anchor dates of SpecWindow: consecutive days from 2023-12-25 on, across the
\* end of a year and the 29th of February
WindowAnchors == {Ymd2Ord(2023, 12, 25) + k : k \in 0..(WindowDays - 1)}

-----------------------------------------------------------------------------
(* The specifications *)

\* a generator that renders again and again, from a file that is there or not
Init ==
    /\ \E c \in Configs : Constructed(c[1], c[2])
    /\ \E rows \in SeqsUpTo(RowUniverse, MaxRows) : fs = FileSystem(rows)

Begin == \E path \in Paths, t \in Anchors : GenerateSvgBegin(path, t)
Raises == \E path \in Paths, t \in Anchors : GenerateSvgRaises(path, t)

Next == Begin \/ Raises \/ PlaceNext \/ GenerateSvgEnd

Spec == Init /\ [][Next]_vars

\* one render of a file of events
InitPack ==
    /\ Constructed(DefaultCellHeight, DefaultEventHeight)
    /\ \E rows \in SeqsUpTo(PackRows, MaxEvents) : fs = FileSystem(rows)

BeginPack == pc = "new" /\ \E t \in PackAnchors : GenerateSvgBegin("vacation.csv", t)

NextPack == BeginPack \/ PlaceNext \/ GenerateSvgEnd

SpecPack == InitPack /\ [][NextPack]_vars

\* loads on their own
InitLoad ==
    /\ Constructed(DefaultCellHeight, DefaultEventHeight)
    /\ \E rows \in SeqsUpTo(RowUniverse, MaxRows) \cup RosterFiles : fs = FileSystem(rows)

Load == \E path \in Paths : LoadEventsFromCsv(path)

NextLoad == Load

SpecLoad == InitLoad /\ [][NextLoad]_vars

\* windows on their own
InitWindow ==
    /\ Constructed(DefaultCellHeight, DefaultEventHeight)
    /\ fs = FileSystem(<<>>)

Window == \E t \in WindowAnchors : GetFourWeekRange(t)

NextWindow == Window

SpecWindow == InitWindow /\ [][NextWindow]_vars

-----------------------------------------------------------------------------
(* What the claims speak of *)

\* the dates of the window of the last call
WindowDates == Range(AllDates(weeks))

\* an event covers a date
Covers(event, date) == event.start_date <= date /\ date <= event.end_date

\* the events that have been given a layout_position
Packed == {i \in 1..Len(events) : layout_position[i] # -1}

\* the events whose range meets the window
MeetsWindow ==
    {i \in 1..Len(events) : \E date \in WindowDates : Covers(events[i], date)}

SetMax(S) == IF S = {} THEN -1 ELSE CHOOSE x \in S : \A y \in S : y <= x

\* the number of rows the layout uses: 1 + the highest layout_position
RowsUsed == 1 + SetMax({layout_position[i] : i \in Packed})

\* the largest number of events that cover one date of the window
MaxCover ==
    SetMax({Cardinality({i \in 1..Len(events) : Covers(events[i], date)}) :
              date \in WindowDates} \cup {0})

\* every event of the generator has start_date <= end_date
WellOrdered == \A i \in 1..Len(events) : events[i].start_date <= events[i].end_date

\* the rows of the file of the last call, and those among them that are well formed
FileRows == fs[csv_file].rows
WellFormed(row) == Len(row) >= 4 /\ StrptimeAccepts(row[1]) /\ StrptimeAccepts(row[2])
RowKey(row) == <<row[3], Strptime(row[1]), Strptime(row[2])>>

\* the last call read an existing file to its end
Loaded == pc # "new" /\ pc # "raised" /\ csv_file # "" /\ fs[csv_file].exists

-----------------------------------------------------------------------------
(* C3: the window *)

\* C3: after get_four_week_range(today) the window is 4 weeks of 7 dates, every week
\* starts on a Monday, the 28 dates are consecutive days, and today lies in the second
\* week.
C3_WindowCorrect ==
    pc = "returned" =>
        /\ Len(weeks) = 4
        /\ \A k \in 1..4 : Len(weeks[k]) = 7 /\ Weekday(weeks[k][1]) = 0
        /\ Len(AllDates(weeks)) = 28
        /\ \A i \in 1..27 : AllDates(weeks)[i + 1] = AllDates(weeks)[i] + 1
        /\ weeks[2][1] <= today /\ today <= weeks[2][7]

\* a window anchored on a Sunday that runs across the end of 2023
C3_Witness ==
    /\ pc = "returned"
    /\ Weekday(today) = 6
    /\ weeks[1][1] < Ymd2Ord(2024, 1, 1)
    /\ weeks[4][7] >= Ymd2Ord(2024, 1, 1)

-----------------------------------------------------------------------------
(* C1: no two events in one slot *)

\* C1: at every moment of the layout and after it, for every date of the window, a
\* packed event that covers the date holds the slot of its layout_position in the
\* occupancy list of the date, so that two distinct packed events that cover the date
\* have different layout_position values and every slot holds at most one event.
C1_NoCollision ==
    pc \in {"layout", "returned"} =>
        \A date \in WindowDates :
            /\ \A i \in Packed :
                   Covers(events[i], date) =>
                       /\ layout_position[i] < Len(date_event_positions[date])
                       /\ date_event_positions[date][layout_position[i] + 1] = i
            /\ \A i, j \in Packed :
                   (i # j /\ Covers(events[i], date) /\ Covers(events[j], date))
                       => layout_position[i] # layout_position[j]

\* three packed events cover one date of the window
C1_Witness ==
    /\ pc = "returned"
    /\ \E date \in WindowDates :
           Cardinality({i \in Packed : Covers(events[i], date)}) >= 3

-----------------------------------------------------------------------------
(* C2: the bands *)

\* the bands of event i in the week of index w (from 0)
BandsOf(i, w) == {k \in 1..Len(bands) : bands[k].event = i /\ bands[k].week_idx = w}

\* the dates a band lies on
BandDates(band) ==
    {weeks[band.week_idx + 1][1] + band.day_idx + n : n \in 0..(band.length - 1)}

\* C2: after generate_svg, for every week and every event, there is exactly one band
\* when the range of the event meets the week and none otherwise; the band starts on
\* max(event start, Monday of the week), its length is weekday(min(event end, Sunday
\* of the week)) - weekday(start) + 1 and it ends within the week; the bands of an
\* event lie on exactly the dates of its range that are in the window, and no date is
\* under two of them.
C2_OneBandPerWeek ==
    pc = "returned" =>
        \A i \in 1..Len(events) :
            /\ \A w \in 0..3 :
                   LET week  == weeks[w + 1]
                       first == Max2(events[i].start_date, week[1])
                       last  == Min2(events[i].end_date, week[7])
                   IN  IF \E date \in Range(week) : Covers(events[i], date)
                       THEN /\ Cardinality(BandsOf(i, w)) = 1
                            /\ \A k \in BandsOf(i, w) :
                                   /\ week[bands[k].day_idx + 1] = first
                                   /\ bands[k].length = Weekday(last) - Weekday(first) + 1
                                   /\ bands[k].day_idx + bands[k].length <= 7
                       ELSE BandsOf(i, w) = {}
            /\ UNION {BandDates(bands[k]) : k \in {n \in 1..Len(bands) : bands[n].event = i}}
                   = {date \in WindowDates : Covers(events[i], date)}
            /\ \A k, n \in 1..Len(bands) :
                   (k # n /\ bands[k].event = i /\ bands[n].event = i)
                       => BandDates(bands[k]) \cap BandDates(bands[n]) = {}

\* an event that starts before the window and ends after it, drawn in all four weeks,
\* and an event outside the window
C2_Witness ==
    /\ pc = "returned"
    /\ \E i \in 1..Len(events) :
           /\ events[i].start_date < weeks[1][1]
           /\ events[i].end_date > weeks[4][7]
           /\ \A w \in 0..3 : \E k \in BandsOf(i, w) : bands[k].length = 7
    /\ \E i \in 1..Len(events) :
           /\ events[i].start_date <= events[i].end_date
           /\ i \notin MeetsWindow

-----------------------------------------------------------------------------
(* C4: the de-duplication *)

\* the well-formed rows of the file that have the key
RowsWithKey(key) == {n \in 1..Len(FileRows) : WellFormed(FileRows[n]) /\ RowKey(FileRows[n]) = key}

\* C4: after a load that read the file to its end, the events hold exactly one event
\* for every key (member, start_date, end_date) of the rows read, no other event, and
\* the event of a key has the description of the last row with the key.
C4_DedupLastWins ==
    Loaded =>
        /\ \A n \in 1..Len(FileRows) :
               WellFormed(FileRows[n]) =>
                   Cardinality({i \in 1..Len(events) : Key(events[i]) = RowKey(FileRows[n])}) = 1
        /\ \A i \in 1..Len(events) :
               /\ RowsWithKey(Key(events[i])) # {}
               /\ events[i].description = FileRows[SetMax(RowsWithKey(Key(events[i])))][4]

\* a file with two rows of one key and different descriptions, and a row of another key
C4_Witness ==
    /\ Loaded
    /\ Len(events) = 2
    /\ \E n, k \in 1..Len(FileRows) :
           /\ n < k
           /\ WellFormed(FileRows[n]) /\ WellFormed(FileRows[k])
           /\ RowKey(FileRows[n]) = RowKey(FileRows[k])
           /\ FileRows[n][4] # FileRows[k][4]

-----------------------------------------------------------------------------
(* C5: the number of rows *)

\* C5 as it was stated: after the layout of events that all have start_date <=
\* end_date, the number of rows used equals the largest number of events that cover
\* one date of the window.
C5_RowsMinimal ==
    (pc = "returned" /\ WellOrdered) => RowsUsed = MaxCover

\* C5 as amended: after the layout, the number of rows used is at least the largest
\* number of events that cover one date of the window and at most the number of
\* events that are relevant to the window.
C5_RowsBounded ==
    pc = "returned" =>
        /\ MaxCover <= RowsUsed
        /\ RowsUsed <= Cardinality({i \in 1..Len(events) :
                                      ~(events[i].end_date < weeks[1][1]
                                        \/ events[i].start_date > weeks[4][7])})

\* four events, never more than two on one date, laid out on three rows
C5_Witness ==
    /\ pc = "returned"
    /\ WellOrdered
    /\ Len(events) = 4
    /\ MaxCover = 2
    /\ RowsUsed = 3

-----------------------------------------------------------------------------
(* C6, C7, C8: what a load accepts *)

\* C6: a call on a file that exists does not end with an exception, and every
\* well-formed row of the file has its event in the event set.
C6_MalformedRowSkipped ==
    (pc # "new" /\ csv_file # "" /\ fs[csv_file].exists) =>
        /\ pc # "raised"
        /\ \A n \in 1..Len(FileRows) :
               WellFormed(FileRows[n]) =>
                   \E i \in 1..Len(events) : Key(events[i]) = RowKey(FileRows[n])

\* C7: in and after a generate_svg call on a file that does not exist the event set is
\* empty, the layout packs nothing and no band is drawn.
C7_MissingSourceNoEvents ==
    (pc \in {"layout", "returned"} /\ csv_file # "" /\ ~fs[csv_file].exists) =>
        /\ events = <<>>
        /\ \A date \in WindowDates : date_event_positions[date] = <<>>
        /\ bands = <<>>

\* C8: after a load every event of the event set has start_date <= end_date, and no
\* event whose start_date is after its end_date has a layout_position or a band.
C8_StartAfterEndRejected ==
    pc # "new" =>
        \A i \in 1..Len(events) :
            /\ events[i].start_date <= events[i].end_date
            /\ events[i].start_date > events[i].end_date =>
                   /\ layout_position[i] = -1
                   /\ \A k \in 1..Len(bands) : bands[k].event # i

-----------------------------------------------------------------------------
(* C9: the colours *)

\* the members of the loaded events
Owners == {events[i].member : i \in 1..Len(events)}

\* the index of a member in the ascending sort of the members of the loaded events
Rank(member) == Cardinality({o \in Owners : StrLess(o, member)})

\* the rows of a file from the last to the first
Reverse(rows) == [n \in 1..Len(rows) |-> rows[Len(rows) + 1 - n]]

\* C9: after a load that read the file to its end, the colour of every member of the
\* loaded events is the palette entry of index (rank of the member in the ascending
\* sort of these members) mod (length of the palette); a load of the same rows in the
\* opposite order, and a second load of the same file, give these members the same
\* colours.
C9_ColorBySortedRank ==
    Loaded =>
        /\ \A m \in Owners :
               /\ m \in DOMAIN member_colors
               /\ member_colors[m] = colors[(Rank(m) % Len(colors)) + 1]
        /\ LET reversed == load_events_from_csv([exists |-> TRUE, rows |-> Reverse(FileRows)],
                                                <<>>, <<>>, NoColors)
               again    == load_events_from_csv(fs[csv_file], events, layout_position,
                                                member_colors)
           IN  /\ reversed.status = "ok"
               /\ \A m \in Owners : reversed.member_colors[m] = member_colors[m]
               /\ \A m \in Owners : again.member_colors[m] = member_colors[m]

\* a roster of more members than the palette has colours, written to the file from
\* the second member on: the last member of the sort has the colour of the second
C9_Witness ==
    /\ Loaded
    /\ Cardinality(Owners) = Len(colors) + 2
    /\ events[1].member = RosterMember(2)
    /\ member_colors[RosterMember(Len(colors) + 2)] = colors[2]
    /\ member_colors[RosterMember(2)] = colors[2]

-----------------------------------------------------------------------------
(* C10: the cell height *)

\* C10: after generate_svg the cell height is max(configured cell_height, 60 + M *
\* (event_height + 2)), M the length of the longest occupancy list of the window of
\* this call.
C10_CellHeightFormula ==
    pc = "returned" =>
        cell_height = Max2(configured_cell_height,
                           60 + (SetMax({Len(date_event_positions[date]) : date \in WindowDates}
                                        \cup {0}))
                                * (event_height + 2))

-----------------------------------------------------------------------------
(* C11: first fit in input order *)

\* the slot of index k (from 1) of the occupancy list of a date, None beyond its end
SlotAt(occupancy, date, k) ==
    IF k <= Len(occupancy[date]) THEN occupancy[date][k] ELSE None

\* the dates of event i that are in the window
ClippedDates(i) == {date \in WindowDates : Covers(events[i], date)}

\* row r is free for event i: on every date of the event in the window the row is
\* beyond the end of the occupancy list or holds no event
RowFree(i, r) == \A date \in ClippedDates(i) : SlotAt(date_event_positions, date, r + 1) = None

\* C11: every step of the layout places the first event of the event list that is
\* relevant and not yet placed, at the smallest row that is free for it on its dates
\* in the window at that moment; after the step that row holds the event on exactly
\* these dates, no other slot and no other layout_position has changed.
C11_FirstFitStep ==
    [][(pc = "layout" /\ next_event' = next_event + 1) =>
          LET e == relevant[next_event]
              r == layout_position'[e]
          IN  /\ \A i \in 1..Len(events) :
                     (i < e /\ ~(events[i].end_date < weeks[1][1]
                                 \/ events[i].start_date > weeks[4][7])) => i \in Packed
              /\ \A i \in Packed : i < e
              /\ r >= 0
              /\ RowFree(e, r)
              /\ \A q \in 0..(r - 1) : ~RowFree(e, q)
              /\ \A date \in WindowDates : \A k \in 1..(Len(events) + 1) :
                     SlotAt(date_event_positions', date, k)
                         = IF date \in ClippedDates(e) /\ k = r + 1 THEN e
                           ELSE SlotAt(date_event_positions, date, k)
              /\ \A date \in WindowDates :
                     Len(date_event_positions'[date]) <= Len(events)
              /\ \A i \in 1..Len(events) :
                     i # e => layout_position'[i] = layout_position[i]
      ]_vars

\* an event placed in a free slot under the slot of an event placed before it, and an
\* event placed after it that starts before the window
C11_Witness ==
    /\ pc = "returned"
    /\ \E date \in WindowDates :
           /\ Len(date_event_positions[date]) >= 2
           /\ date_event_positions[date][1] # None
           /\ date_event_positions[date][2] # None
           /\ date_event_positions[date][1] > date_event_positions[date][2]
    /\ \E i \in Packed : events[i].start_date < weeks[1][1]

-----------------------------------------------------------------------------
(* C12: the layout ends *)

\* C12: the event placed k-th (k from 0) gets a layout_position from 0 to k, so the
\* events placed so far use at most as many rows as there are of them; and the packing
\* ends: while a relevant event is left its placement can be taken (its row search
\* finds a row), every step of the layout places one more relevant event, there are
\* never more steps than relevant events, and the layout is left only when every
\* relevant event has a layout_position.
C12_PackingTerminates ==
    /\ [](pc \in {"layout", "returned"} =>
            /\ \A k \in 1..(next_event - 1) :
                   /\ layout_position[relevant[k]] >= 0
                   /\ layout_position[relevant[k]] <= k - 1
            /\ RowsUsed <= next_event - 1
            /\ next_event <= Len(relevant) + 1)
    /\ [](pc = "layout" /\ next_event <= Len(relevant) => ENABLED PlaceNext)
    /\ [][pc = "layout" =>
              \/ /\ pc' = "layout"
                 /\ next_event' = next_event + 1
                 /\ layout_position'[relevant[next_event]] >= 0
              \/ /\ pc' = "returned"
                 /\ next_event = Len(relevant) + 1
                 /\ \A k \in 1..Len(relevant) : layout_position'[relevant[k]] >= 0
        ]_vars

\* four relevant events on one date: the event placed last has the position 3
C12_Witness ==
    /\ pc = "returned"
    /\ Len(relevant) = 4
    /\ layout_position[relevant[4]] = 3

=============================================================================
